---------------------------- MODULE Spec2Model ----------------------------
(***************************************************************************)
(* The redirect engine of src/index.js: getRedirectsMiddleware compiles    *)
(* the lines of the _redirects file into rules, and the middleware it      *)
(* returns, redirectsMiddleware, answers each request with a 307 redirect  *)
(* from a rule or passes it on with next().                                *)
(*                                                                         *)
(* Text.  A string is modelled as the sequence of its lexemes: each lexeme *)
(* is a chunk of consecutive characters and the string is their            *)
(* concatenation ("/o/:i" is <<"/", "o", "/", ":", "i">>).  The vocabulary *)
(* keeps every character the code or its libraries test for (" ", tab,     *)
(* "#", ",", "/", ":", "?", "&", "=", "*", "..", "@") a lexeme of its own, *)
(* so split, trim, includes and startsWith are decided on lexemes exactly  *)
(* as on characters.  All other lexemes are words of [a-z0-9_.] written in *)
(* lower case; the names of the HTTP methods are words in upper case.      *)
(***************************************************************************)
EXTENDS Integers, Sequences, FiniteSets, TLC

VARIABLES
    lines,        \* redirectsString.split('\n')
    lineNumber,   \* the compile loop's index, 0-based
    pc,           \* "parse", "compile": in the loop; "serve"; "crashed"
    cur,          \* the loop body's locals methods, from, to
    redirects,    \* the rule list the middleware closes over
    diag,         \* console.error calls of the compiler
    served,       \* requests handled so far
    req,          \* the request handled last, <<>> before the first
    out,          \* what redirectsMiddleware did with it
    trail         \* what the trailing-slash middleware did with it

vars == <<lines, lineNumber, pc, cur, redirects, diag, served, req, out, trail>>

----------------------------------------------------------------------------
(* Strings                                                                 *)

Whitespace == {" ", "\t"}

RECURSIVE TrimStart(_)
TrimStart(s) ==
    IF s # <<>> /\ Head(s) \in Whitespace THEN TrimStart(Tail(s)) ELSE s

RECURSIVE TrimEnd(_)
TrimEnd(s) ==
    IF s # <<>> /\ s[Len(s)] \in Whitespace
    THEN TrimEnd(SubSeq(s, 1, Len(s) - 1))
    ELSE s

\* String.prototype.trim
Trim(s) == TrimEnd(TrimStart(s))

\* String.prototype.split(sep) for a one-character separator: the pieces
\* between separators, empty pieces included.
RECURSIVE Split(_, _)
Split(s, sep) ==
    IF \E i \in 1..Len(s) : s[i] = sep
    THEN LET i == CHOOSE k \in 1..Len(s) :
                      s[k] = sep /\ \A j \in 1..(k - 1) : s[j] # sep
         IN  <<SubSeq(s, 1, i - 1)>> \o Split(SubSeq(s, i + 1, Len(s)), sep)
    ELSE <<s>>

\* s.startsWith(p)
StartsWith(s, p) == Len(s) >= Len(p) /\ SubSeq(s, 1, Len(p)) = p

Drop(s, n) == SubSeq(s, n + 1, Len(s))

\* Array.prototype.includes / String.prototype.includes of one lexeme
Includes(s, x) == \E i \in 1..Len(s) : s[i] = x

\* to.includes('//')
IncludesSlashSlash(s) == \E i \in 1..(Len(s) - 1) : s[i] = "/" /\ s[i + 1] = "/"

RECURSIVE Flatten(_)
Flatten(ss) == IF ss = <<>> THEN <<>> ELSE Head(ss) \o Flatten(Tail(ss))

IsEmpty(s) == Len(s) = 0

\* .filter(Boolean) on an array of strings
FilterBoolean(ss) == SelectSeq(ss, LAMBDA x : ~IsEmpty(x))

\* .map(l => l.trim())
MapTrim(ss) == [i \in 1..Len(ss) |-> Trim(ss[i])]

----------------------------------------------------------------------------
(* Lines 86-109: a line's methods, from and to                             *)

possibleMethods ==
    {<<"HEAD">>, <<"GET">>, <<"POST">>, <<"PUT">>, <<"DELETE">>, <<"PATCH">>,
     <<"*">>}

\* An array element that does not exist is undefined.  The code only tests
\* from and to with `!x`, true of undefined and of the empty string alike,
\* and .filter(Boolean) leaves no empty token: undefined is the empty text.
Undefined == <<>>

At(ss, i) == IF i <= Len(ss) THEN ss[i] ELSE Undefined

\* line.split(' ').map(l => l.trim()).filter(Boolean)
Tokens(line) == FilterBoolean(MapTrim(Split(line, " ")))

\* Lines 95-109, for a trimmed line that is neither blank nor a comment.
ParseLine(line) ==
    LET toks == Tokens(line)
        one == At(toks, 1)
        two == At(toks, 2)
        three == At(toks, 3)
        splitOne == Split(one, ",")
    IN  IF \E m \in possibleMethods : Includes(splitOne, m)
        THEN [methods |-> splitOne, from |-> two, to |-> three]
        ELSE [methods |-> << <<"*">> >>, from |-> one, to |-> two]

\* Line 93: blank or comment
Skipped(line) == IsEmpty(line) \/ StartsWith(line, <<"#">>)


----------------------------------------------------------------------------
(* path-to-regexp (line 8): pathToRegexp(path, keys) and compile(path)     *)
(* The vocabulary has no "(", "{", "\" and no modifier after a parameter.  *)

Failure == [ok |-> FALSE]

\* The lexer's MODIFIER characters.
Modifiers == {"*", "+", "?"}

\* The default delimiter "/#?": a parameter matches [^\/#\?]+?
Delimiters == {"/", "#", "?"}

\* A lexeme of [A-Za-z0-9_] characters only: what a parameter name is made of.
NameLexemes == {"i", "a", "b", "o", "n", "m", "s", "t", "x", "k", "v", "42"}

StrToken(text) == [key |-> FALSE, name |-> <<>>, prefix |-> <<>>, text |-> text]

KeyToken(name, prefix) ==
    [key |-> TRUE, name |-> name, prefix |-> prefix, text |-> <<>>]

\* The length of the run of name lexemes of s from position i on.
RECURSIVE NameRun(_, _)
NameRun(s, i) ==
    IF i <= Len(s) /\ s[i] \in NameLexemes THEN 1 + NameRun(s, i + 1) ELSE 0

\* parse(): the tokens of a path, literal texts and parameters.  `path` is
\* the literal text collected so far.  A ":" needs a name after it ("Missing
\* parameter name"); the character before a parameter is its prefix when it
\* is "/" (the lexemes before a ":" never end in "."); a modifier anywhere
\* else than after a parameter is "Unexpected MODIFIER".
RECURSIVE ParseTokens(_, _, _, _)
ParseTokens(s, i, path, result) ==
    IF i > Len(s)
    THEN [ok |-> TRUE,
          tokens |-> IF IsEmpty(path) THEN result
                     ELSE Append(result, StrToken(path))]
    ELSE IF s[i] = ":"
    THEN LET n == NameRun(s, i + 1)
             slash == ~IsEmpty(path) /\ path[Len(path)] = "/"
             lit == IF slash THEN SubSeq(path, 1, Len(path) - 1) ELSE path
             key == KeyToken(SubSeq(s, i + 1, i + n),
                             IF slash THEN <<"/">> ELSE <<>>)
         IN  IF n = 0 THEN Failure
             ELSE ParseTokens(s, i + n + 1, <<>>,
                      Append(IF IsEmpty(lit) THEN result
                             ELSE Append(result, StrToken(lit)), key))
    ELSE IF s[i] \in Modifiers THEN Failure
    ELSE ParseTokens(s, i + 1, Append(path, s[i]), result)

parse(path) == ParseTokens(path, 1, <<>>, <<>>)

\* The keys array pathToRegexp fills: the parameters in order.
KeysOf(tokens) == SelectSeq(tokens, LAMBDA t : t.key)

NoMatch == [ok |-> FALSE, values |-> <<>>]

\* String.prototype.match against the regular expression of `tokens` with
\* the default options (end, not strict: one optional trailing delimiter):
\* whether `s` matches and the captured groups, match.slice(1).  A parameter
\* is the non-greedy group ([^\/#\?]+?) after its prefix.
RECURSIVE Match(_, _)
Match(tokens, s) ==
    IF tokens = <<>>
    THEN [ok |-> IsEmpty(s) \/ (Len(s) = 1 /\ s[1] \in Delimiters),
          values |-> <<>>]
    ELSE LET t == Head(tokens) IN
         IF ~t.key
         THEN IF StartsWith(s, t.text)
              THEN Match(Tail(tokens), Drop(s, Len(t.text)))
              ELSE NoMatch
         ELSE IF ~StartsWith(s, t.prefix) THEN NoMatch
         ELSE LET rest == Drop(s, Len(t.prefix))
                  fits == {n \in 1..Len(rest) :
                              /\ \A j \in 1..n : rest[j] \notin Delimiters
                              /\ Match(Tail(tokens), Drop(rest, n)).ok}
              IN  IF fits = {} THEN NoMatch
                  ELSE LET n == CHOOSE k \in fits : \A j \in fits : k <= j
                       IN  [ok |-> TRUE,
                            values |-> <<SubSeq(rest, 1, n)>>
                                \o Match(Tail(tokens), Drop(rest, n)).values]

\* encodeURIComponent, lexeme by lexeme: words, ".." and "*" are unreserved.
encodeLexeme(c) ==
    CASE c = "@" -> <<"%40">>
      [] c = ":" -> <<"%3A">>
      [] c = "/" -> <<"%2F">>
      [] c = "?" -> <<"%3F">>
      [] c = "=" -> <<"%3D">>
      [] c = "&" -> <<"%26">>
      [] c = "," -> <<"%2C">>
      [] c = "#" -> <<"%23">>
      [] c = " " -> <<"%20">>
      [] OTHER -> <<c>>

encodeURIComponent(s) == Flatten([i \in 1..Len(s) |-> encodeLexeme(s[i])])

\* The path function compile() returns, applied to `params` (a function from
\* names to values): literal texts as they are, a parameter as its prefix
\* and its encoded value.  A parameter `params` does not have is a TypeError
\* ("Expected ... to be a string"), and so is an encoded value that does
\* not match the parameter's pattern.
RECURSIVE toPath(_, _)
toPath(tokens, params) ==
    IF tokens = <<>> THEN [ok |-> TRUE, path |-> <<>>]
    ELSE LET t == Head(tokens)
             more == toPath(Tail(tokens), params)
         IN  IF ~t.key
             THEN IF more.ok THEN [ok |-> TRUE, path |-> t.text \o more.path]
                  ELSE Failure
             ELSE IF t.name \notin DOMAIN params THEN Failure
             ELSE LET segment == encodeURIComponent(params[t.name])
                  IN  IF IsEmpty(segment)
                         \/ \E j \in 1..Len(segment) : segment[j] \in Delimiters
                      THEN Failure
                      ELSE IF more.ok
                      THEN [ok |-> TRUE,
                            path |-> t.prefix \o segment \o more.path]
                      ELSE Failure

----------------------------------------------------------------------------
(* The WHATWG URL class (line 4), for http and https URLs without          *)
(* credentials or fragment.  A URL object is its protocol (without ":"),   *)
(* host, pathname and the list of its searchParams, <<name, value>> pairs. *)

SpecialSchemes == {"http", "https"}

\* A port is digits.
DigitLexemes == {"42"}

\* Forbidden host code points of the vocabulary.
ForbiddenHost == {" "}

\* The index of the first lexeme of s in set S, Len(s) + 1 when there is none.
FirstIn(s, S) ==
    IF \E i \in 1..Len(s) : s[i] \in S
    THEN CHOOSE i \in 1..Len(s) : s[i] \in S /\ \A j \in 1..(i - 1) : s[j] \notin S
    ELSE Len(s) + 1

RECURSIVE SkipSlashes(_)
SkipSlashes(s) == IF s # <<>> /\ Head(s) = "/" THEN SkipSlashes(Tail(s)) ELSE s

\* The path state of the URL parser on the segments of a path: ".." removes
\* the segment before it, and as last segment leaves an empty one.
RECURSIVE PathSegments(_, _)
PathSegments(segs, acc) ==
    IF segs = <<>> THEN acc
    ELSE IF Head(segs) = <<"..">>
    THEN LET shorter == IF acc = <<>> THEN acc ELSE SubSeq(acc, 1, Len(acc) - 1)
         IN  PathSegments(Tail(segs),
                 IF Len(segs) = 1 THEN Append(shorter, <<>>) ELSE shorter)
    ELSE PathSegments(Tail(segs), Append(acc, Head(segs)))

\* A path without its leading "/".
SkipSlashesOnce(p) == IF p # <<>> /\ Head(p) = "/" THEN Tail(p) ELSE p

\* The pathname the parser keeps for a path text: "" and "/" are "/".
NormalizePath(p) ==
    LET segs == PathSegments(Split(SkipSlashesOnce(p), "/"), <<>>)
    IN  Flatten([i \in 1..Len(segs) |-> <<"/">> \o segs[i]])

\* name=value: the name up to the first "=", the value after it.
ParsePair(s) ==
    LET i == FirstIn(s, {"="}) IN <<SubSeq(s, 1, i - 1), Drop(s, i)>>

\* The searchParams of a query string (without its "?").
ParseQuery(q) ==
    LET parts == FilterBoolean(Split(q, "&"))
    IN  [i \in 1..Len(parts) |-> ParsePair(parts[i])]

\* URLSearchParams serialised, "" for an empty list.
RECURSIVE SerializeQuery(_)
SerializeQuery(query) ==
    IF query = <<>> THEN <<>>
    ELSE Head(query)[1] \o <<"=">> \o Head(query)[2]
         \o (IF Len(query) > 1 THEN <<"&">> ELSE <<>>)
         \o SerializeQuery(Tail(query))

\* new URL(s) without a base: a TypeError (ok = FALSE) when s has no scheme,
\* its host is empty or has a forbidden code point, or its port is no number.
newURL(s) ==
    IF ~(Len(s) >= 2 /\ s[1] \in SpecialSchemes /\ s[2] = ":") THEN Failure
    ELSE LET rest == SkipSlashes(Drop(s, 2))
             a == FirstIn(rest, {"/", "?"})
             authority == SubSeq(rest, 1, a - 1)
             c == FirstIn(authority, {":"})
             hostname == SubSeq(authority, 1, c - 1)
             port == Drop(authority, c)
             after == Drop(rest, a - 1)
             q == FirstIn(after, {"?"})
         IN  IF \/ IsEmpty(hostname)
                \/ \E i \in 1..Len(hostname) : hostname[i] \in ForbiddenHost
                \/ \E i \in 1..Len(port) : port[i] \notin DigitLexemes
             THEN Failure
             ELSE [ok |-> TRUE,
                   url |-> [protocol |-> s[1],
                            host |-> hostname \o
                                (IF IsEmpty(port) THEN <<>> ELSE <<":">> \o port),
                            pathname |-> NormalizePath(SubSeq(after, 1, q - 1)),
                            query |-> ParseQuery(Drop(after, q))]]

\* url.toString()
toString(url) ==
    <<url.protocol, ":", "/", "/">> \o url.host \o url.pathname
        \o (IF url.query = <<>> THEN <<>>
            ELSE <<"?">> \o SerializeQuery(url.query))

----------------------------------------------------------------------------
(* getRedirectsMiddleware, lines 85-134                                    *)

same_host == <<"same_host">>

\* Lines 117-119
toUrlOf(to) ==
    IF IncludesSlashSlash(to) THEN newURL(to)
    ELSE newURL(<<"https", ":", "/", "/">> \o same_host \o to)

\* Lines 121-129: the rule pushed for a line, ok = FALSE when pathToRegexp
\* or compile throws inside the try.
RuleOf(methods, from, toUrl) ==
    LET regexp == parse(from)
        toPathname == parse(toUrl.pathname)
    IN  IF ~regexp.ok \/ ~toPathname.ok THEN Failure
        ELSE [ok |-> TRUE,
              rule |-> [methods |-> methods,
                        from |-> regexp.tokens,
                        keys |-> KeysOf(regexp.tokens),
                        toPathname |-> toPathname.tokens,
                        toUrl |-> toUrl]]

\* The number console.error reports for the line at index lineNumber:
\* line 112 for a line without from or to, line 132 in the catch.
InvalidLineNumber(n) == n + 1

FailedLineNumber(n) == n

\* Lines 91-93 and 95-109: the loop reads and trims a line, skips a blank
\* one or a comment, and otherwise sets methods, from and to.
ReadLine ==
    /\ pc = "parse"
    /\ lineNumber < Len(lines)
    /\ LET line == Trim(lines[lineNumber + 1])
       IN  IF Skipped(line)
           THEN /\ lineNumber' = lineNumber + 1
                /\ UNCHANGED <<pc, cur>>
           ELSE /\ cur' = ParseLine(line)
                /\ pc' = "compile"
                /\ UNCHANGED lineNumber
    /\ UNCHANGED <<lines, redirects, diag, served, req, out, trail>>

\* Lines 111-133: the rest of the loop body.  new URL is outside the try:
\* its TypeError leaves getRedirectsMiddleware, and the server with it.
CompileLine ==
    /\ pc = "compile"
    /\ LET line == Trim(lines[lineNumber + 1])
           toUrl == toUrlOf(cur.to)
           compiled == RuleOf(cur.methods, cur.from, toUrl.url)
       IN  IF IsEmpty(cur.from) \/ IsEmpty(cur.to)
           THEN /\ diag' = Append(diag, [kind |-> "invalid", line |-> line,
                                         number |-> InvalidLineNumber(lineNumber)])
                /\ lineNumber' = lineNumber + 1
                /\ pc' = "parse"
                /\ UNCHANGED redirects
           ELSE IF ~toUrl.ok
           THEN /\ pc' = "crashed"
                /\ UNCHANGED <<lineNumber, redirects, diag>>
           ELSE IF ~compiled.ok
           THEN /\ diag' = Append(diag, [kind |-> "failed", line |-> line,
                                         number |-> FailedLineNumber(lineNumber)])
                /\ lineNumber' = lineNumber + 1
                /\ pc' = "parse"
                /\ UNCHANGED redirects
           ELSE /\ redirects' = Append(redirects, compiled.rule)
                /\ lineNumber' = lineNumber + 1
                /\ pc' = "parse"
                /\ UNCHANGED diag
    /\ UNCHANGED <<lines, cur, served, req, out, trail>>

\* Line 136: the loop is over and the middleware is returned.
ReturnMiddleware ==
    /\ pc = "parse"
    /\ lineNumber = Len(lines)
    /\ pc' = "serve"
    /\ UNCHANGED <<lines, lineNumber, cur, redirects, diag, served, req, out, trail>>

----------------------------------------------------------------------------
(* redirectsMiddleware, lines 136-189                                      *)
(* A request is its method, its raw url (path and query string) and the    *)
(* X-Forwarded-Host and Host headers, each <<>> when the request has no    *)
(* such header and <<value>> when it has.                                  *)

\* Express's req.path: the url up to its query string.
PathOf(r) == SubSeq(r.url, 1, FirstIn(r.url, {"?"}) - 1)

\* Line 137: req.header('X-Forwarded-Host') ?? req.header('host'), as <<>>
\* for undefined and <<host>> otherwise.
HostHeader(r) == IF r.xfh # <<>> THEN r.xfh ELSE r.host

\* Line 138
ProtocolOf(host) == IF Includes(host, "localhost") THEN "http" ELSE "https"

\* The method filter left out.
MethodAllowedAny(redirect, r) == TRUE

\* Lines 149-154: the rule is for the request's method.
MethodAllowed(redirect, r) ==
    Includes(redirect.methods, <<"*">>) \/ Includes(redirect.methods, <<r.method>>)

\* The captures assigned to the names from the wrong end.
BuildParamsReversed(keys, paramValues) ==
    [n \in {keys[i].name : i \in 1..Len(paramValues)} |->
        LET k == CHOOSE i \in 1..Len(paramValues) : keys[i].name = n
        IN  paramValues[Len(paramValues) + 1 - k]]

\* Lines 158-167: params[redirect.keys[paramIndex].name] = paramValue, in
\* the order of the captures.
BuildParams(keys, paramValues) ==
    [n \in {keys[i].name : i \in 1..Len(paramValues)} |->
        LET last == CHOOSE i \in 1..Len(paramValues) :
                        /\ keys[i].name = n
                        /\ \A j \in 1..Len(paramValues) : keys[j].name = n => j <= i
        IN  paramValues[last]]

\* Line 176: the pathname setter parses the new path as the parser does.
SetPathname(url, path) == [url EXCEPT !.pathname = NormalizePath(path)]

\* Lines 168-175: the rule's own URL object gets the request's protocol,
\* its host when it still has the sentinel's, and the request's parameters.
Retarget(toUrl, protocol, reqUrl) ==
    [toUrl EXCEPT !.protocol = protocol,
                  !.host = IF @ = same_host THEN reqUrl.host ELSE @,
                  !.query = @ \o reqUrl.query]

\* Lines 148-186, one iteration of the loop: "skip" for a continue,
\* "redirect" with the Location sent, or "error" when toPathname(params)
\* throws into the catch.  `rule` is the rule object as the iteration
\* leaves it.
EvalRule(redirect, r, protocol, reqUrl) ==
    LET match == Match(redirect.from, PathOf(r))
        params == BuildParams(redirect.keys, match.values)
        toUrl == Retarget(redirect.toUrl, protocol, reqUrl)
        path == toPath(redirect.toPathname, params)
        sent == SetPathname(toUrl, path.path)
    IN  IF ~MethodAllowed(redirect, r) \/ ~match.ok
        THEN [kind |-> "skip", rule |-> redirect, location |-> <<>>]
        ELSE IF ~path.ok
        THEN [kind |-> "error", rule |-> [redirect EXCEPT !.toUrl = toUrl],
              location |-> <<>>]
        ELSE [kind |-> "redirect", rule |-> [redirect EXCEPT !.toUrl = sent],
              location |-> toString(sent)]

\* A catch that leaves the loop.
AfterCatchBreak(i, n) == n + 1

\* Lines 179-186: the catch logs and the loop goes on with the rule after
\* rule i of n.
AfterCatch(i, n) == i + 1

Outcome(status, location, nextCalls, threw, by, evaluated, caught) ==
    [status |-> status, location |-> location, nextCalls |-> nextCalls,
     threw |-> threw, by |-> by, evaluated |-> evaluated, caught |-> caught]

NoOutcome == Outcome(0, <<>>, 0, FALSE, 0, <<>>, <<>>)

\* Lines 147-188: the loop from rule i on, and next() after it.  The result
\* is the rule list as the request leaves it and the outcome: the status and
\* Location sent (0 and "" for none), the calls of next(), whether an
\* exception left the middleware, the rule that redirected (0 for none) and
\* the rules evaluated and caught, by index.
RECURSIVE RunRules(_, _, _, _, _, _, _)
RunRules(rules, i, r, protocol, reqUrl, evaluated, caught) ==
    IF i > Len(rules)
    THEN [redirects |-> rules,
          out |-> Outcome(0, <<>>, 1, FALSE, 0, evaluated, caught)]
    ELSE LET e == EvalRule(rules[i], r, protocol, reqUrl)
             after == [rules EXCEPT ![i] = e.rule]
         IN  IF e.kind = "redirect"
             THEN [redirects |-> after,
                   out |-> Outcome(307, e.location, 0, FALSE, i,
                                   Append(evaluated, i), caught)]
             ELSE IF e.kind = "error"
             THEN RunRules(after, AfterCatch(i, Len(rules)), r, protocol, reqUrl,
                           Append(evaluated, i), Append(caught, i))
             ELSE RunRules(rules, i + 1, r, protocol, reqUrl,
                           Append(evaluated, i), caught)

\* Lines 136-189 for request r.  host.includes on an undefined host is a
\* TypeError outside every try; a request URL that does not parse is logged
\* and passed on.
Handle(rules, r) ==
    IF HostHeader(r) = <<>>
    THEN [redirects |-> rules, out |-> Outcome(0, <<>>, 0, TRUE, 0, <<>>, <<>>)]
    ELSE LET host == HostHeader(r)[1]
             protocol == ProtocolOf(host)
             reqUrl == newURL(<<protocol, ":", "/", "/">> \o host \o r.url)
         IN  IF ~reqUrl.ok
             THEN [redirects |-> rules,
                   out |-> Outcome(0, <<>>, 1, FALSE, 0, <<>>, <<>>)]
             ELSE RunRules(rules, 1, r, protocol, reqUrl.url, <<>>, <<>>)

----------------------------------------------------------------------------
(* The inputs                                                              *)

\* The longest _redirects file, in lines, and the most requests served.
MaxLines == 2

MaxRequests == 2

o == <<"/", "o">>

sab == <<"/", "s", "/", ":", "a", "/", ":", "b">>

sp == <<" ">>

\* GET /s/:a/:b /t/:b/:a
LineGet == <<"GET">> \o sp \o sab \o sp \o <<"/", "t", "/", ":", "b", "/", ":", "a">>

\* /s/:a/:b /m?x=1
LineQuery == sab \o sp \o <<"/", "m", "?", "x", "=", "1">>

\* /o /n/:i : the destination names a parameter the pattern does not have
LineUnbound == o \o sp \o <<"/", "n", "/", ":", "i">>

\* /o https://e.c/n
LineAbsolute == o \o sp \o <<"https", ":", "/", "/", "e.c", "/", "n">>

LineBlank == <<>>

\* # o
LineComment == <<"#", " ", "o">>

\* GET,POST /o
LineNoTo == <<"GET", ",", "POST">> \o sp \o o

\* /o /a//b : a path with "//" is handed to new URL as it is
LineBadUrl == o \o sp \o <<"/", "a", "/", "/", "b">>

\* /o/* /n : a pattern path-to-regexp rejects
LineBadPattern == <<"/", "o", "/", "*">> \o sp \o <<"/", "n">>

\* The lines of the files served: rules of every kind, a comment, a line
\* that is discarded and a line that ends the compilation.  SpecCompile
\* compiles the other shapes.
SampleLines ==
    {LineGet, LineQuery, LineUnbound, LineAbsolute, LineComment, LineNoTo,
     LineBadUrl}

SeqsUpTo(S, n) == UNION {[1..k -> S] : k \in 1..n}

Files == SeqsUpTo(SampleLines, MaxLines)

Methods == {"GET", "POST"}

Paths ==
    {<<"/", "s", "/", "42", "/", "@">>, <<"/", "s", "/", "42", "/", "..">>, o}

\* none, and ?k=v&x=2
QueryStrings == {<<>>, <<"?", "k", "=", "v", "&", "x", "=", "2">>}

None == <<>>

Some(x) == <<x>>

\* The X-Forwarded-Host and Host headers of a request: neither; Host
\* localhost; Host "a c", which is no host; both.
Headers ==
    {<<None, None>>,
     <<None, Some(<<"localhost">>)>>,
     <<None, Some(<<"a", " ", "c">>)>>,
     <<Some(<<"f.c">>), Some(<<"a.c">>)>>}

\* Every method, path and query string with Host: a.c, and GET /s/42/@ with
\* the other headers: the headers decide the host and protocol only.
Requests ==
    {[method |-> m, url |-> p \o q, xfh |-> None, host |-> Some(<<"a.c">>)] :
        m \in Methods, p \in Paths, q \in QueryStrings}
        \cup {[method |-> "GET", url |-> <<"/", "s", "/", "42", "/", "@">>,
               xfh |-> h[1], host |-> h[2]] : h \in Headers}

----------------------------------------------------------------------------
(* The trailing-slash middleware, lines 29-37                              *)

\* Lines 29-37: the middleware after the redirect matcher.  Express calls it
\* when the matcher called next(), in the same turn of the event loop.  Its
\* record says whether the request reached it ("no": not handed on,
\* "pending": handed on and not run yet, "done"), the status and Location
\* it sent (0 and "" for none) and its calls of next().
SlashOutcome(state, status, location, nextCalls) ==
    [state |-> state, status |-> status, location |-> location,
     nextCalls |-> nextCalls]

NotReached == SlashOutcome("no", 0, <<>>, 0)

Pending == SlashOutcome("pending", 0, <<>>, 0)

\* String.prototype.endsWith of one lexeme
EndsWith(s, c) == Len(s) > 0 /\ s[Len(s)] = c

\* .slice(0, -1): "/" is a lexeme of one character
SliceEnd(s) == SubSeq(s, 1, Len(s) - 1)

\* .replace(/\/+/g, '/'): every run of slashes becomes one slash
RECURSIVE ReplaceSlashRuns(_)
ReplaceSlashRuns(s) ==
    IF Len(s) <= 1 THEN s
    ELSE IF s[1] = "/" /\ s[2] = "/" THEN ReplaceSlashRuns(Tail(s))
    ELSE <<s[1]>> \o ReplaceSlashRuns(Tail(s))

\* The length test left out.
HasTrailingSlashAny(path) == EndsWith(path, "/")

\* Line 30.  Every lexeme has at least one character, so a path that ends
\* with "/" is longer than one character when it has more than one lexeme.
HasTrailingSlash(path) == EndsWith(path, "/") /\ Len(path) > 1

\* Line 31
query(r) == Drop(r.url, Len(PathOf(r)))

\* Line 32
safepath(r) == ReplaceSlashRuns(SliceEnd(PathOf(r)))

\* Lines 30-36
StripSlash(r) ==
    IF HasTrailingSlash(PathOf(r))
    THEN SlashOutcome("done", 301, safepath(r) \o query(r), 0)
    ELSE SlashOutcome("done", 0, <<>>, 1)

----------------------------------------------------------------------------
(* The program                                                             *)

NoLocals == [methods |-> <<>>, from |-> <<>>, to |-> <<>>]

Init ==
    /\ lines \in Files
    /\ lineNumber = 0
    /\ pc = "parse"
    /\ cur = NoLocals
    /\ redirects = <<>>
    /\ diag = <<>>
    /\ served = 0
    /\ req = <<>>
    /\ out = NoOutcome
    /\ trail = NotReached

\* One call of the middleware, from its first line to its return or throw.
redirectsMiddleware(r) ==
    /\ pc = "serve"
    /\ served < MaxRequests
    /\ LET done == Handle(redirects, r)
       IN  /\ redirects' = done.redirects
           /\ out' = done.out
           /\ trail' = IF done.out.nextCalls = 1 THEN Pending ELSE NotReached
    /\ req' = r
    /\ served' = served + 1
    /\ UNCHANGED <<lines, lineNumber, pc, cur, diag>>

Request == \E r \in Requests : redirectsMiddleware(r)

Next == ReadLine \/ CompileLine \/ ReturnMiddleware \/ Request

Spec == Init /\ [][Next]_vars

----------------------------------------------------------------------------
(* The first two handlers of the application, lines 27-37: the redirect    *)
(* matcher and, for a request it hands on, the trailing-slash middleware.  *)
(* The requests have paths with and without a slash at the end, with runs  *)
(* of slashes and without, and the path "/".                               *)

AppLines == {LineAbsolute, LineGet, LineComment}

AppPaths ==
    {<<"/">>, o, o \o <<"/">>, o \o <<"/", "/">>, <<"/">> \o o \o <<"/">>,
     <<"/", "/">>, <<"/", "s", "/", "/", "42", "/">>}

AppRequests ==
    {[method |-> "GET", url |-> p \o q, xfh |-> None, host |-> Some(<<"a.c">>)] :
        p \in AppPaths, q \in QueryStrings}

InitApp ==
    /\ lines \in SeqsUpTo(AppLines, MaxLines)
    /\ lineNumber = 0
    /\ pc = "parse"
    /\ cur = NoLocals
    /\ redirects = <<>>
    /\ diag = <<>>
    /\ served = 0
    /\ req = <<>>
    /\ out = NoOutcome
    /\ trail = NotReached

\* Line 27: a request arrives when the one before it has left the handlers.
RequestApp ==
    /\ trail # Pending
    /\ \E r \in AppRequests : redirectsMiddleware(r)

\* Lines 29-37, for the request the matcher handed on.
TrailingSlash ==
    /\ pc = "serve"
    /\ trail = Pending
    /\ trail' = StripSlash(req)
    /\ UNCHANGED <<lines, lineNumber, pc, cur, redirects, diag, served, req, out>>

NextApp ==
    ReadLine \/ CompileLine \/ ReturnMiddleware \/ RequestApp \/ TrailingSlash

SpecApp == InitApp /\ [][NextApp]_vars

----------------------------------------------------------------------------
(* The compiler alone, on lines of every shape: one to four tokens, with   *)
(* and without a methods token, separated by a space, two spaces or a tab, *)
(* with and without whitespace around them.                                *)

x == <<"x">>

n == <<"/", "n">>

MethodTokens == {<<"GET">>, <<"GET", ",", "POST">>, <<"*">>, <<"GET", ",", "x">>}

TokenLists ==
    {<<m, o, n>> : m \in MethodTokens}
        \cup {<<o, n>>, <<o, n, x>>, <<x, o, n>>, <<o>>,
              << <<"GET">>, o >>, << <<"GET">> >>, << <<"GET">>, o, n, x >>}

Separators == {<<" ">>, <<" ", " ">>, <<"\t">>}

Paddings == {<<>>, <<" ", "\t">>}

RECURSIVE Join(_, _)
Join(tokens, sep) ==
    IF Len(tokens) <= 1 THEN Flatten(tokens)
    ELSE Head(tokens) \o sep \o Join(Tail(tokens), sep)

CompileLines ==
    {pad \o Join(tokens, sep) \o pad :
        tokens \in TokenLists, sep \in Separators, pad \in Paddings}
        \cup {LineBlank, <<" ">>, LineComment, <<" ", "#", "o">>, LineBadUrl,
              LineBadPattern}

InitCompile ==
    /\ lines \in SeqsUpTo(CompileLines, MaxLines)
    /\ lineNumber = 0
    /\ pc = "parse"
    /\ cur = NoLocals
    /\ redirects = <<>>
    /\ diag = <<>>
    /\ served = 0
    /\ req = <<>>
    /\ out = NoOutcome
    /\ trail = NotReached

NextCompile == ReadLine \/ CompileLine \/ ReturnMiddleware

SpecCompile == InitCompile /\ [][NextCompile]_vars

----------------------------------------------------------------------------
(* What the claims speak of                                                *)

\* A request has been handled / has been answered with a redirect.
Handled == served > 0

Redirected == Handled /\ out.status = 307

\* The Location sent, as a URL.
Location == newURL(out.location).url

\* What compiling one line adds to the rule list: nothing, or the rule
\* together with the destination as the line writes it.
EntryOf(rawLine) ==
    LET line == Trim(rawLine)
        parts == ParseLine(line)
        toUrl == toUrlOf(parts.to)
        compiled == RuleOf(parts.methods, parts.from, toUrl.url)
    IN  IF Skipped(line) \/ IsEmpty(parts.from) \/ IsEmpty(parts.to) THEN <<>>
        ELSE IF ~toUrl.ok THEN <<>>
        ELSE IF ~compiled.ok THEN <<>>
        ELSE <<[rule |-> compiled.rule, to |-> parts.to]>>

\* The rules of a file as compilation leaves them, in the order of the lines.
EntriesOf(ls) == Flatten([i \in 1..Len(ls) |-> EntryOf(ls[i])])

AsCompiled == EntriesOf(lines)

\* Rule i is for the request's method and its pattern matches the path.
Applies(i) ==
    /\ \E k \in 1..Len(redirects[i].methods) :
           redirects[i].methods[k] \in {<<"*">>, <<req.method>>}
    /\ Match(redirects[i].from, PathOf(req)).ok

\* Every parameter the destination of rule i names is one of its pattern.
Expandable(i) ==
    \A j \in 1..Len(redirects[i].toPathname) :
        redirects[i].toPathname[j].key =>
            \E k \in 1..Len(redirects[i].keys) :
                redirects[i].keys[k].name = redirects[i].toPathname[j].name

\* The destination template of `rule` with each parameter replaced, by
\* name, by the encoded value the pattern captures for it in `path`.
ExpandedByName(rule, path) ==
    LET values == Match(rule.from, path).values
        valueOf(name) ==
            values[CHOOSE k \in 1..Len(rule.keys) : rule.keys[k].name = name]
    IN  Flatten([j \in 1..Len(rule.toPathname) |->
            IF rule.toPathname[j].key
            THEN rule.toPathname[j].prefix
                     \o encodeURIComponent(valueOf(rule.toPathname[j].name))
            ELSE rule.toPathname[j].text])

----------------------------------------------------------------------------
(* C1 *)

\* C1 as stated: a redirect comes from the first rule, in file order, that
\* is for the request's method and matches its path, and no rule after that
\* one is evaluated.  Fails when that rule's expansion throws and a later
\* rule answers.
C1_FirstApplicableRedirects ==
    Redirected =>
        /\ Applies(out.by)
        /\ \A j \in 1..(out.by - 1) : ~Applies(j)
        /\ \A k \in 1..Len(out.evaluated) : out.evaluated[k] <= out.by

\* C1, amended: a redirect comes from the first rule, in file order, that is
\* for the request's method (its methods hold "*" or the method), matches
\* the path and can be expanded; a rule that is not for the method never
\* redirects, and no rule after the redirecting one is evaluated.
C1_FirstExpandableRedirects ==
    Redirected =>
        /\ Applies(out.by) /\ Expandable(out.by)
        /\ \A j \in 1..(out.by - 1) : ~(Applies(j) /\ Expandable(j))
        /\ \A k \in 1..Len(out.evaluated) : out.evaluated[k] <= out.by

\* The second rule redirects a request whose path the first rule matches
\* too, but whose method the first rule is not for.
C1_Witness ==
    /\ Redirected
    /\ out.by = 2
    /\ Match(redirects[1].from, PathOf(req)).ok
    /\ ~Applies(1)
    /\ Expandable(1)

----------------------------------------------------------------------------
(* C2 *)

\* C2: once the middleware is returned, no request changes a compiled rule.
C2_RulesNeverChange == [][pc = "serve" => redirects' = redirects]_vars

----------------------------------------------------------------------------
(* C3 *)

\* C3: a redirect to a destination written as a path has the request's host
\* (X-Forwarded-Host, else Host) and http for a localhost host, https
\* otherwise; a redirect to an absolute destination has the rule's host.
C3_LocationHost ==
    Redirected =>
        LET written == AsCompiled[out.by]
            host == HostHeader(req)[1]
        IN  IF ~IncludesSlashSlash(written.to)
            THEN /\ Location.host = host
                 /\ Location.protocol =
                        (IF Includes(host, "localhost") THEN "http" ELSE "https")
            ELSE Location.host = written.rule.toUrl.host

----------------------------------------------------------------------------
(* C4 *)

\* C4: the query of a redirect is the parameters written in the rule's
\* destination followed by the request's own, each once and in order.
C4_LocationQuery ==
    Redirected =>
        Location.query =
            AsCompiled[out.by].rule.toUrl.query
                \o ParseQuery(Drop(req.url, FirstIn(req.url, {"?"})))

----------------------------------------------------------------------------
(* C5 *)

\* C5: getRedirectsMiddleware never raises, and returns with the rules of
\* all lines that compile and a diagnostic for each line it discards.
C5_CompilerNeverRaises ==
    /\ pc # "crashed"
    /\ pc = "serve" /\ served = 0 =>
          /\ Len(redirects) = Len(AsCompiled)
          /\ Len(redirects) + Len(diag)
                = Cardinality({i \in 1..Len(lines) : ~Skipped(Trim(lines[i]))})

----------------------------------------------------------------------------
(* C6 *)

\* C6: when evaluating a rule raises, the exception is caught, the rule
\* counts as not matching and the next rule is evaluated; the request ends
\* with a redirect from a later rule or with next(), never with an error.
C6_RuleErrorIsSkipped ==
    Handled =>
        /\ out.threw => out.evaluated = <<>>
        /\ \A k \in 1..Len(out.caught) :
              LET i == out.caught[k]
              IN  /\ ~out.threw
                  /\ i < Len(redirects) => Includes(out.evaluated, i + 1)
                  /\ \/ out.status = 307 /\ out.by > i /\ out.nextCalls = 0
                     \/ out.status = 0 /\ out.by = 0 /\ out.nextCalls = 1

\* The first rule raised and the second one redirected.
C6_Witness ==
    /\ Handled
    /\ out.caught = <<1>>
    /\ out.status = 307
    /\ out.by = 2

----------------------------------------------------------------------------
(* C7 *)

\* C7: every request ends with exactly one 307 redirect or exactly one call
\* of next(), never both, and no exception leaves the middleware.
C7_RedirectOrNextOnce ==
    Handled =>
        /\ ~out.threw
        /\ \/ out.status = 307 /\ out.nextCalls = 0
           \/ out.status = 0 /\ out.nextCalls = 1

----------------------------------------------------------------------------
(* C8 *)

\* C8 as stated: the path of the Location is the rule's destination
\* template with each parameter replaced, by name, by the value captured
\* for it.  Fails for a captured "..", which the URL's pathname resolves.
C8_PathIsExpansion ==
    Redirected =>
        Location.pathname = ExpandedByName(redirects[out.by], PathOf(req))

\* C8, amended: the path of the Location is that expansion (each value
\* encoded with encodeURIComponent) after the URL parser has resolved its
\* ".." segments.
C8_PathIsNormalizedExpansion ==
    Redirected =>
        Location.pathname =
            NormalizePath(ExpandedByName(redirects[out.by], PathOf(req)))

\* /s/42/@ is redirected to /t/%40/42: the destination names the two
\* parameters in the other order.
C8_Witness ==
    /\ Redirected
    /\ PathOf(req) = <<"/", "s", "/", "42", "/", "@">>
    /\ Len(redirects[out.by].keys) = 2
    /\ Location.pathname = <<"/", "t", "/", "%40", "/", "42">>

----------------------------------------------------------------------------
(* C9 *)

\* C9: the middleware is returned with exactly the rules of the lines that
\* compile, in the order of the lines, and when no line is a rule every
\* request is passed on, without a redirect and without an error.
C9_RulesAreTheCompiledLines ==
    /\ pc = "serve" /\ served = 0 =>
          redirects = [i \in 1..Len(AsCompiled) |-> AsCompiled[i].rule]
    /\ Handled /\ (\A i \in 1..Len(lines) : Skipped(Trim(lines[i]))) =>
          /\ redirects = <<>>
          /\ out.status = 0
          /\ out.nextCalls = 1
          /\ ~out.threw

----------------------------------------------------------------------------
(* C10 *)

\* The tokens of a line split on whitespace, spaces and tabs alike.
RECURSIVE WhitespaceTokens(_)
WhitespaceTokens(line) ==
    LET s == TrimStart(line)
        e == FirstIn(s, Whitespace)
    IN  IF IsEmpty(s) THEN <<>>
        ELSE <<SubSeq(s, 1, e - 1)>> \o WhitespaceTokens(Drop(s, e - 1))

\* C10: with [A, B, C] the first tokens of a line split on whitespace, the
\* methods are the comma-separated parts of A, from is B and to is C when
\* one of these parts is a method name or "*"; otherwise the methods are
\* ["*"], from is A and to is B.
C10_MethodsFromTo ==
    pc = "compile" =>
        LET toks == WhitespaceTokens(lines[lineNumber + 1])
            A == At(toks, 1)
            B == At(toks, 2)
            C == At(toks, 3)
        IN  IF \E part \in possibleMethods : Includes(Split(A, ","), part)
            THEN cur = [methods |-> Split(A, ","), from |-> B, to |-> C]
            ELSE cur = [methods |-> << <<"*">> >>, from |-> A, to |-> B]

----------------------------------------------------------------------------
\* C11: every diagnostic of the compiler, for a line without from or to and
\* for a line whose compilation throws alike, names the line it is about by
\* its 1-based number in the file: the diagnostic a step of the loop emits
\* carries the loop's 0-based index plus one and the text of that line.
C11_DiagnosticNamesLine ==
    [][Len(diag') > Len(diag) =>
          /\ diag'[Len(diag')].number = lineNumber + 1
          /\ diag'[Len(diag')].line = Trim(lines[lineNumber + 1])]_vars

----------------------------------------------------------------------------
\* The request handled last has been through the trailing-slash middleware.
Stripped == Handled /\ trail.state = "done"

\* The request path without its last character.
WithoutLastSlash == SubSeq(PathOf(req), 1, Len(PathOf(req)) - 1)

\* The positions of s that are not a slash right after a slash.
KeptPositions(s) == {i \in 1..Len(s) : s[i] # "/" \/ i = 1 \/ s[i - 1] # "/"}

\* t is s with every run of slashes made one slash.
IsCollapsed(t, s) ==
    /\ Len(t) = Cardinality(KeptPositions(s))
    /\ \A i \in KeptPositions(s) :
          t[Cardinality({j \in KeptPositions(s) : j <= i})] = s[i]

\* C12, as the specification states it: a request the redirect matcher
\* passed through whose path is longer than one character and ends with "/"
\* is answered with a 301 whose target is the path without that one slash,
\* followed by the request's query string, and is not handed on; every
\* other request is handed on, once, with no response.
C12_TargetWithoutTrailingSlash ==
    Stripped =>
        IF Len(PathOf(req)) > 1 /\ PathOf(req)[Len(PathOf(req))] = "/"
        THEN /\ trail.status = 301
             /\ trail.location = WithoutLastSlash \o Drop(req.url, Len(PathOf(req)))
             /\ trail.nextCalls = 0
        ELSE /\ trail.status = 0
             /\ trail.nextCalls = 1

\* C12, as the code has it: the target is the path without its last slash
\* and with every run of slashes made a single slash, followed by the
\* request's query string; the rest as above.
C12_TargetCollapsedWithoutTrailingSlash ==
    Stripped =>
        IF Len(PathOf(req)) > 1 /\ PathOf(req)[Len(PathOf(req))] = "/"
        THEN /\ trail.status = 301
             /\ \E k \in 0..Len(trail.location) :
                   /\ IsCollapsed(SubSeq(trail.location, 1, k), WithoutLastSlash)
                   /\ Drop(trail.location, k) = Drop(req.url, Len(PathOf(req)))
                   /\ ~Includes(SubSeq(trail.location, 1, k), "?")
             /\ trail.nextCalls = 0
        ELSE /\ trail.status = 0
             /\ trail.location = <<>>
             /\ trail.nextCalls = 1

\* //o/?k=v&x=2 was passed through by the matcher and redirected to
\* /o?k=v&x=2.
C12_Witness ==
    /\ Stripped
    /\ out.nextCalls = 1
    /\ req.url = <<"/", "/", "o", "/", "?", "k", "=", "v", "&", "x", "=", "2">>
    /\ trail.status = 301
    /\ trail.location = <<"/", "o", "?", "k", "=", "v", "&", "x", "=", "2">>

=============================================================================
